---- MODULE Spec2Model ----
(***************************************************************************)
(* A state-machine model of asm2vec/internal/training.py: the              *)
(* SequenceWindow cursor, the TrainingContext with its named counters,     *)
(* the per-token gradient step and the two entry points train/estimate.    *)
(*                                                                         *)
(* Abstraction of the numeric part.  The contents of the numpy vectors     *)
(* (Token.v, Token.v_pred, Function.v) are not represented: a function    *)
(* vector is modelled by the number of in-place updates ("-=") applied to  *)
(* it, the token vectors by the set of tokens updated so far, and the      *)
(* back-propagation of a gradient step is modelled by the list of          *)
(* updates it performs, each with the learning-rate factor the code        *)
(* multiplies the gradient by.  The numpy calls themselves (np.hstack,     *)
(* np.average, np.dot, np.exp, np.sum) are taken to return a value; this   *)
(* includes np.hstack(op.v, avg) in _get_inst_repr, which passes the two   *)
(* parts as two positional arguments where numpy takes one tuple.          *)
(* The learning rate is an exact rational <<numerator, denominator>>.      *)
(***************************************************************************)
EXTENDS Integers, Sequences, FiniteSets, TLC

VARIABLES
    mode,        \* which entry point runs: "train" or "estimate"
    repo,        \* FunctionRepository: [funcs, vocab, num_of_tokens]
    target,      \* the function handed to estimate: a sequence of sequences
    params,      \* Asm2VecParams
    pc,          \* position of the running entry point
    err,         \* the exception that ended the run, "" when none
    context,     \* TrainingContext: [alpha, is_estimating]
    counters,    \* TrainingContext._counters of each context: name -> value
    fi,          \* index of the function being iterated (0: none yet / target)
    si,          \* index of the sequence being iterated within the function
    wnd,         \* SequenceWindow: [seq, i, view]
    tokIdx,      \* index into tokens = [curr op] + curr args
    lastTok,     \* the token step just made: [tk, draws, targets]
    lastWrites,  \* the vector updates of the last back-propagation
    vecV,        \* the tokens whose v has been updated
    vecVPred,    \* the tokens whose v_pred has been updated
    funcV,       \* number of updates applied to each function's v
    trace,       \* calls of _train_vectorized so far: <<fi, si, position>>
    tokensDone,  \* tokens processed by the gradient step so far
    yielded,     \* tuples returned by the window driven on its own
    stops,       \* StopIteration signals of the window driven on its own
    lastOp,      \* the last counter operation and what it returned
    expected     \* per counter: initial (0 after reset) + incs since then

vars == <<mode, repo, target, params, pc, err, context, counters, fi, si, wnd,
          tokIdx, lastTok, lastWrites, vecV, vecVPred, funcV, trace,
          tokensDone, yielded, stops, lastOp, expected>>

mainVars == <<mode, repo, target, params, pc, err, context, fi, si, tokIdx,
              lastTok, lastWrites, vecV, vecVPred, funcV, trace, tokensDone>>

(***************************************************************************)
(* Bounds of the model.                                                    *)
(***************************************************************************)
MaxFuncs == 2
MaxSeqs == 2
MaxSeqLen == 4
MaxNegSamples == 2
MaxCounterVal == 3
MaxInitial == 2
MaxStops == 2

(***************************************************************************)
(* Asm2VecParams defaults.                                                 *)
(***************************************************************************)
InitialAlphaNum == 5
InitialAlphaDen == 100
AlphaUpdateInterval == 10000
Iteration == 1
AlphaFloorDen == 10000

TOKENS_HANDLED_COUNTER == "tokens_handled"

(***************************************************************************)
(* Small arithmetic helpers.                                               *)
(***************************************************************************)
Max(a, b) == IF a >= b THEN a ELSE b

RatLeq(a, b) == a[1] * b[2] <= b[1] * a[2]

RatEq(a, b) == a[1] * b[2] = b[1] * a[2]

RatMax(a, b) == IF RatLeq(b, a) THEN a ELSE b

RECURSIVE SumSeq(_)
SumSeq(s) == IF s = <<>> THEN 0 ELSE Head(s) + SumSeq(Tail(s))

(***************************************************************************)
(* Instructions, sequences and the vocabulary the inputs are drawn from.   *)
(***************************************************************************)
Names == {"push", "mov", "eax", "ebx"}

Insts == << [op |-> "push", args |-> <<>>],
            [op |-> "push", args |-> <<"eax">>],
            [op |-> "mov",  args |-> <<"eax", "ebx">>] >>

InstSet == {Insts[k] : k \in 1..Len(Insts)}

InsTokens(ins) == <<ins.op>> \o ins.args

\* A sequence of n instructions cycling through Insts from offset p.
MkSeq(n, p) == [k \in 1..n |-> Insts[((k + p) % Len(Insts)) + 1]]

\* Function f of a repository: ns sequences whose lengths vary with base.
MkFunc(f, ns, base) ==
    [s \in 1..ns |-> MkSeq((base + f + s) % (MaxSeqLen + 1), f + s)]

SeqTokens(seq) == SumSeq([k \in 1..Len(seq) |-> 1 + Len(seq[k].args)])

FuncTokens(f) == SumSeq([s \in 1..Len(f) |-> SeqTokens(f[s])])

\* FunctionRepository.num_of_tokens(): opcode + operand occurrences.
NumOfTokens(funcs) == SumSeq([f \in 1..Len(funcs) |-> FuncTokens(funcs[f])])

\* Window positions of a sequence of length n.
WindowCount(n) == Max(0, n - 2)

(***************************************************************************)
(* SequenceWindow.                                                         *)
(***************************************************************************)
NoView == [prev |-> <<>>, curr |-> <<>>, next |-> <<>>]

\* SequenceWindow.__init__
SequenceWindow_init(seq) == [seq |-> seq, i |-> 1, view |-> NoView]

\* A faulty guard that stops one position early.
SW_AtEnd_Early(w) == w.i >= Len(w.seq) - 2

\* The guard of __next__: Python indexes from 0, so position i is seq[i + 1].
SW_AtEnd(w) == w.i >= Len(w.seq) - 1

SW_Prev(w) == w.seq[w.i]
SW_Curr(w) == w.seq[w.i + 1]
SW_Next(w) == w.seq[w.i + 2]

\* token_lookup succeeds for every token of the three instructions.
SW_LookupOk(w, vocab) ==
    \A ins \in {SW_Prev(w), SW_Curr(w), SW_Next(w)} :
        \A k \in 1..Len(InsTokens(ins)) : InsTokens(ins)[k] \in vocab

\* A faulty __next__ that forgets "self._i += 1".
SW_Advance_NoInc(w) ==
    [seq |-> w.seq, i |-> w.i,
     view |-> [prev |-> SW_Prev(w), curr |-> SW_Curr(w), next |-> SW_Next(w)]]

\* The state of the window after a successful __next__.
SW_Advance(w) ==
    [seq |-> w.seq, i |-> w.i + 1,
     view |-> [prev |-> SW_Prev(w), curr |-> SW_Curr(w), next |-> SW_Next(w)]]

(***************************************************************************)
(* TrainingContext.Counter and the counter registry.                       *)
(***************************************************************************)
CtxIds == {"a", "b"}
MainCtx == "a"
CounterNames == {TOKENS_HANDLED_COUNTER, "other"}

\* Counter.val
Counter_val(v) == v

\* A faulty inc that adds two.
Counter_inc_Twice(v) == v + 2

\* Counter.inc: the new value, which is also returned.
Counter_inc(v) == v + 1

\* Counter.reset: the value left behind (the old value is returned).
Counter_reset(v) == 0

\* TrainingContext.get_counter: dict.get, None for a missing name.
get_counter(cnts, name) ==
    IF name \in DOMAIN cnts
    THEN [kind |-> "Counter", name |-> name]
    ELSE [kind |-> "None", name |-> name]

\* TrainingContext.add_counter: a new Counter replaces any of that name.
add_counter(cnts, name, initial) ==
    [n \in DOMAIN cnts \cup {name} |-> IF n = name THEN initial ELSE cnts[n]]

NoCounters == [n \in {} |-> 0]

NoOp == [op |-> "none", ctx |-> "", name |-> "", before |-> 0, ret |-> 0,
         outcome |-> ""]

(***************************************************************************)
(* The gradient step's target set: dict(map(...sample(S))) followed by     *)
(* the conditional insertion of the current token.  A dict is a list of    *)
(* entries in insertion order; "from" tells where the entry's value came   *)
(* from (a drawn sample, or the current token tk itself).                  *)
(***************************************************************************)
DictHas(d, key) == \E k \in 1..Len(d) : d[k].name = key

DictPut(d, key, from) ==
    IF DictHas(d, key)
    THEN [k \in 1..Len(d) |->
            IF d[k].name = key THEN [name |-> key, from |-> from] ELSE d[k]]
    ELSE Append(d, [name |-> key, from |-> from])

RECURSIVE DictFromSamples(_, _)
DictFromSamples(draws, d) ==
    IF Len(draws) = 0 THEN d
    ELSE DictFromSamples(Tail(draws), DictPut(d, Head(draws), "sample"))

\* A faulty variant that stores tk without looking whether it was drawn.
BuildTargets_AlwaysInsert(draws, tk) ==
    DictPut(DictFromSamples(draws, <<>>), tk, "tk")

BuildTargets(draws, tk) ==
    LET sampled == DictFromSamples(draws, <<>>)
    IN  IF ~DictHas(sampled, tk) THEN DictPut(sampled, tk, "tk") ELSE sampled

(***************************************************************************)
(* The learning-rate recomputation of the gradient step.                   *)
(***************************************************************************)
AlphaFloor(p) == <<p.initial_alpha[1], p.initial_alpha[2] * AlphaFloorDen>>

NewAlpha(c, p, total) ==
    LET den == p.iteration * total + 1
    IN  RatMax(<<den - c, den>>, AlphaFloor(p))

(***************************************************************************)
(* The back-propagation at the end of a full-mode gradient step: the list  *)
(* of updates "vector -= factor * part / div", in the order of the code.   *)
(***************************************************************************)
ArgWrites(ins, role, factor) ==
    [k \in 1..Len(ins.args) |->
        [tok |-> ins.args[k], role |-> role, factor |-> factor,
         div |-> Len(ins.args)]]

BackPropWrites(view, alpha, alpha0) ==
    <<[tok |-> view.prev.op, role |-> "prev_op", factor |-> alpha, div |-> 1]>>
    \o ArgWrites(view.prev, "prev_arg", alpha)
    \o <<[tok |-> view.next.op, role |-> "next_op", factor |-> alpha0, div |-> 1]>>
    \o ArgWrites(view.next, "next_arg", alpha)

(***************************************************************************)
(* The entry points, as a state machine.                                   *)
(***************************************************************************)
DefaultParams(S) ==
    [initial_alpha |-> <<InitialAlphaNum, InitialAlphaDen>>,
     alpha_update_interval |-> AlphaUpdateInterval,
     neg_samples |-> S,
     iteration |-> Iteration]

Vocabs(m) == IF m = "train" THEN {Names} ELSE {Names, Names \ {"ebx"}}

\* The counter side of the state before any context exists.
CtxIdle ==
    /\ counters = [c \in CtxIds |-> NoCounters]
    /\ expected = [c \in CtxIds |-> NoCounters]
    /\ lastOp = NoOp

\* The stand-alone window side of the state when no window is driven alone.
WndIdle ==
    /\ yielded = <<>>
    /\ stops = 0

Init ==
    /\ mode \in {"train", "estimate"}
    /\ \E nf \in 0..MaxFuncs, ns \in 0..MaxSeqs, base \in 0..MaxSeqLen,
          S \in 0..MaxNegSamples, vocab \in Vocabs(mode) :
          LET funcs == [f \in 1..nf |-> MkFunc(f, ns, base)]
          IN  /\ repo = [funcs |-> funcs, vocab |-> vocab,
                         num_of_tokens |-> NumOfTokens(funcs)]
              /\ target = IF mode = "estimate" THEN MkFunc(0, ns, base) ELSE <<>>
              /\ params = DefaultParams(S)
    /\ pc = "idle"
    /\ err = ""
    /\ context = [alpha |-> params.initial_alpha, is_estimating |-> FALSE]
    /\ fi = 0
    /\ si = 0
    /\ wnd = SequenceWindow_init(<<>>)
    /\ tokIdx = 0
    /\ lastTok = [tk |-> "", draws |-> <<>>, targets |-> <<>>]
    /\ lastWrites = <<>>
    /\ vecV = {}
    /\ vecVPred = {}
    /\ funcV = [f \in 0..MaxFuncs |-> 0]
    /\ trace = <<>>
    /\ tokensDone = 0
    /\ CtxIdle
    /\ WndIdle

\* The sequences of the function the loop is in.
CurSeqs ==
    IF mode = "estimate" THEN target
    ELSE IF fi = 0 THEN <<>> ELSE repo.funcs[fi]

\* train: TrainingContext(repository, params), add_counter(tokens_handled).
Train ==
    /\ pc = "idle"
    /\ mode = "train"
    /\ context' = [alpha |-> params.initial_alpha, is_estimating |-> FALSE]
    /\ counters' = [counters EXCEPT
                      ![MainCtx] = add_counter(NoCounters, TOKENS_HANDLED_COUNTER, 0)]
    /\ pc' = "seq"
    /\ UNCHANGED <<mode, repo, target, params, err, fi, si, wnd, tokIdx,
                   lastTok, lastWrites, vecV, vecVPred, funcV, trace,
                   tokensDone, yielded, stops, lastOp, expected>>

\* estimate: TrainingContext(estimate_repo, params, True); no counter added.
Estimate ==
    /\ pc = "idle"
    /\ mode = "estimate"
    /\ context' = [alpha |-> params.initial_alpha, is_estimating |-> TRUE]
    /\ counters' = [counters EXCEPT ![MainCtx] = NoCounters]
    /\ pc' = "seq"
    /\ UNCHANGED <<mode, repo, target, params, err, fi, si, wnd, tokIdx,
                   lastTok, lastWrites, vecV, vecVPred, funcV, trace,
                   tokensDone, yielded, stops, lastOp, expected>>

\* train: "for f in context.repo().funcs()" moves to the next function.
NextFunction ==
    /\ pc = "seq"
    /\ mode = "train"
    /\ si = Len(CurSeqs)
    /\ fi < Len(repo.funcs)
    /\ fi' = fi + 1
    /\ si' = 0
    /\ UNCHANGED <<mode, repo, target, params, pc, err, context, counters, wnd,
                   tokIdx, lastTok, lastWrites, vecV, vecVPred, funcV, trace,
                   tokensDone, yielded, stops, lastOp, expected>>

\* "for seq in f.sequential().sequences()": _train_sequence creates a window.
NextSequence ==
    /\ pc = "seq"
    /\ si < Len(CurSeqs)
    /\ si' = si + 1
    /\ wnd' = SequenceWindow_init(CurSeqs[si + 1])
    /\ pc' = "wnd"
    /\ UNCHANGED <<mode, repo, target, params, err, context, counters, fi,
                   tokIdx, lastTok, lastWrites, vecV, vecVPred, funcV, trace,
                   tokensDone, yielded, stops, lastOp, expected>>

\* The loops are exhausted: train returns None, estimate returns f.v.
Return ==
    /\ pc = "seq"
    /\ si = Len(CurSeqs)
    /\ mode = "train" => fi = Len(repo.funcs)
    /\ pc' = "done"
    /\ UNCHANGED <<mode, repo, target, params, err, context, counters, fi, si,
                   wnd, tokIdx, lastTok, lastWrites, vecV, vecVPred, funcV,
                   trace, tokensDone, yielded, stops, lastOp, expected>>

\* _train_sequence: next(wnd), then the call of _train_vectorized.
WindowNext ==
    /\ pc = "wnd"
    /\ IF SW_AtEnd(wnd)
       THEN \* StopIteration, caught by _train_sequence
            /\ pc' = "seq"
            /\ UNCHANGED <<wnd, err, trace, tokIdx>>
       ELSE IF ~SW_LookupOk(wnd, repo.vocab)
       THEN \* self._vocab[name] raises KeyError
            /\ pc' = "error"
            /\ err' = "KeyError"
            /\ UNCHANGED <<wnd, trace, tokIdx>>
       ELSE /\ wnd' = SW_Advance(wnd)
            /\ trace' = Append(trace, <<fi, si, wnd.i>>)
            /\ tokIdx' = 1
            /\ pc' = "tok"
            /\ err' = err
    /\ UNCHANGED <<mode, repo, target, params, context, counters, fi, si,
                   lastTok, lastWrites, vecV, vecVPred, funcV, tokensDone,
                   yielded, stops, lastOp, expected>>

\* One iteration of "for tk in tokens" of _train_vectorized.
TokenStep ==
    /\ pc = "tok"
    /\ LET tokens == InsTokens(wnd.view.curr)
           tk == tokens[tokIdx]
       IN \E draws \in [1..params.neg_samples -> repo.vocab] :
            LET targets == BuildTargets(draws, tk)
                c == get_counter(counters[MainCtx], TOKENS_HANDLED_COUNTER)
            IN  /\ lastTok' = [tk |-> tk, draws |-> draws, targets |-> targets]
                /\ IF c.kind = "None"
                   THEN \* None.val() raises AttributeError
                        /\ pc' = "error"
                        /\ err' = "AttributeError"
                        /\ UNCHANGED <<context, vecVPred, tokIdx, tokensDone>>
                   ELSE LET val == Counter_val(counters[MainCtx][c.name])
                            alpha ==
                              IF val % params.alpha_update_interval = 0
                              THEN NewAlpha(val, params, repo.num_of_tokens)
                              ELSE context.alpha
                        IN  /\ context' = [context EXCEPT !.alpha = alpha]
                            /\ vecVPred' =
                                 IF context.is_estimating THEN vecVPred
                                 ELSE vecVPred \cup
                                        {targets[k].name : k \in 1..Len(targets)}
                            /\ tokensDone' = tokensDone + 1
                            /\ tokIdx' = tokIdx + 1
                            /\ pc' = IF tokIdx = Len(tokens) THEN "apply" ELSE "tok"
                            /\ err' = err
    /\ UNCHANGED <<mode, repo, target, params, counters, fi, si, wnd,
                   lastWrites, vecV, funcV, trace, yielded, stops, lastOp,
                   expected>>

\* The end of _train_vectorized: f.v -= ..., then the back-propagation.
ApplyGradient ==
    /\ pc = "apply"
    /\ funcV' = [funcV EXCEPT ![fi] = @ + 1]
    /\ lastWrites' =
         IF context.is_estimating THEN <<>>
         ELSE BackPropWrites(wnd.view, context.alpha, params.initial_alpha)
    /\ vecV' = vecV \cup {lastWrites'[k].tok : k \in 1..Len(lastWrites')}
    /\ pc' = "wnd"
    /\ UNCHANGED <<mode, repo, target, params, err, context, counters, fi, si,
                   wnd, tokIdx, lastTok, vecVPred, trace, tokensDone, yielded,
                   stops, lastOp, expected>>

Next ==
    \/ Train
    \/ Estimate
    \/ NextFunction
    \/ NextSequence
    \/ Return
    \/ WindowNext
    \/ TokenStep
    \/ ApplyGradient

Spec == Init /\ [][Next]_vars

(***************************************************************************)
(* A SequenceWindow driven on its own: the caller keeps calling next(),    *)
(* also after StopIteration.                                               *)
(***************************************************************************)
AllSeqs == UNION {[1..n -> InstSet] : n \in 0..MaxSeqLen}

\* The entry points stay where Init leaves them.
MainIdle ==
    /\ mode = "train"
    /\ repo = [funcs |-> <<>>, vocab |-> Names, num_of_tokens |-> 0]
    /\ target = <<>>
    /\ params = DefaultParams(0)
    /\ pc = "idle"
    /\ err = ""
    /\ context = [alpha |-> params.initial_alpha, is_estimating |-> FALSE]
    /\ fi = 0
    /\ si = 0
    /\ tokIdx = 0
    /\ lastTok = [tk |-> "", draws |-> <<>>, targets |-> <<>>]
    /\ lastWrites = <<>>
    /\ vecV = {}
    /\ vecVPred = {}
    /\ funcV = [f \in 0..MaxFuncs |-> 0]
    /\ trace = <<>>
    /\ tokensDone = 0

InitWindow ==
    /\ MainIdle
    /\ CtxIdle
    /\ WndIdle
    /\ \E seq \in AllSeqs : wnd = SequenceWindow_init(seq)

\* SequenceWindow.__next__
SequenceWindow_next ==
    /\ stops < MaxStops
    /\ IF SW_AtEnd(wnd)
       THEN /\ stops' = stops + 1
            /\ UNCHANGED <<wnd, yielded>>
       ELSE /\ wnd' = SW_Advance(wnd)
            /\ yielded' = Append(yielded, wnd'.view)
            /\ UNCHANGED stops
    /\ UNCHANGED <<mainVars, counters, lastOp, expected>>

NextWindow == SequenceWindow_next

SpecWindow == InitWindow /\ [][NextWindow]_vars

(***************************************************************************)
(* Two TrainingContexts and their counters, driven by a caller.  A Counter *)
(* is reached through the registry, as get_counter / add_counter return    *)
(* the registered object.                                                  *)
(***************************************************************************)
InitCtx ==
    /\ MainIdle
    /\ CtxIdle
    /\ WndIdle
    /\ wnd = SequenceWindow_init(<<>>)

Registered(c, n) == n \in DOMAIN counters[c]

Op(op, c, n, before, ret, outcome) ==
    [op |-> op, ctx |-> c, name |-> n, before |-> before, ret |-> ret,
     outcome |-> outcome]

CtxAddCounter(c, n, initial) ==
    /\ counters' = [counters EXCEPT ![c] = add_counter(@, n, initial)]
    /\ expected' = [expected EXCEPT ![c] =
                      [m \in DOMAIN @ \cup {n} |-> IF m = n THEN initial ELSE @[m]]]
    /\ lastOp' = Op("add_counter", c, n, 0, initial, "Counter")
    /\ UNCHANGED <<mainVars, wnd, yielded, stops>>

CtxGetCounter(c, n) ==
    /\ lastOp' = Op("get_counter", c, n, 0,
                    IF Registered(c, n) THEN counters[c][n] ELSE 0,
                    get_counter(counters[c], n).kind)
    /\ UNCHANGED <<mainVars, wnd, yielded, stops, counters, expected>>

CtxVal(c, n) ==
    /\ Registered(c, n)
    /\ lastOp' = Op("val", c, n, counters[c][n], Counter_val(counters[c][n]), "ok")
    /\ UNCHANGED <<mainVars, wnd, yielded, stops, counters, expected>>

CtxInc(c, n) ==
    /\ Registered(c, n)
    /\ counters[c][n] < MaxCounterVal
    /\ counters' = [counters EXCEPT ![c][n] = Counter_inc(@)]
    /\ expected' = [expected EXCEPT ![c][n] = @ + 1]
    /\ lastOp' = Op("inc", c, n, counters[c][n], counters'[c][n], "ok")
    /\ UNCHANGED <<mainVars, wnd, yielded, stops>>

CtxReset(c, n) ==
    /\ Registered(c, n)
    /\ counters' = [counters EXCEPT ![c][n] = Counter_reset(@)]
    /\ expected' = [expected EXCEPT ![c][n] = 0]
    /\ lastOp' = Op("reset", c, n, counters[c][n], counters[c][n], "ok")
    /\ UNCHANGED <<mainVars, wnd, yielded, stops>>

NextCtx ==
    \E c \in CtxIds, n \in CounterNames :
        \/ \E initial \in 0..MaxInitial : CtxAddCounter(c, n, initial)
        \/ CtxGetCounter(c, n)
        \/ CtxVal(c, n)
        \/ CtxInc(c, n)
        \/ CtxReset(c, n)

SpecCtx == InitCtx /\ [][NextCtx]_vars

(***************************************************************************)
(* Properties.                                                             *)
(***************************************************************************)
TargetInVocab ==
    \A s \in 1..Len(target) : \A k \in 1..Len(target[s]) :
        \A j \in 1..Len(InsTokens(target[s][k])) :
            InsTokens(target[s][k])[j] \in repo.vocab

SeqWindows(seqs) == SumSeq([s \in 1..Len(seqs) |-> WindowCount(Len(seqs[s]))])

TotalWindows(funcs) == SumSeq([f \in 1..Len(funcs) |-> SeqWindows(funcs[f])])

PositionsOf(f, s, n) == [k \in 1..WindowCount(n) |-> <<f, s, k>>]

RECURSIVE SeqsTrace(_, _, _)
SeqsTrace(f, seqs, s) ==
    IF s > Len(seqs) THEN <<>>
    ELSE PositionsOf(f, s, Len(seqs[s])) \o SeqsTrace(f, seqs, s + 1)

RECURSIVE FuncsTrace(_, _)
FuncsTrace(funcs, f) ==
    IF f > Len(funcs) THEN <<>>
    ELSE SeqsTrace(f, funcs[f], 1) \o FuncsTrace(funcs, f + 1)

\* C1: when estimate ends, no token's v or v_pred has been updated and the
\* function's own vector has been updated once per window position of its
\* sequences.
EstimateUpdatesOnlyFunction ==
    (mode = "estimate" /\ TargetInVocab /\ pc \in {"done", "error"}) =>
        /\ vecV = {}
        /\ vecVPred = {}
        /\ funcV[0] = SeqWindows(target)

\* C2: estimate on a function whose tokens are all in the repository's
\* vocabulary never ends in an error, and steps only through the windows of
\* that function's sequences.
EstimateTerminatesNormally ==
    (mode = "estimate" /\ TargetInVocab) =>
        /\ pc # "error"
        /\ \A k \in 1..Len(trace) : trace[k][1] = 0
        /\ pc = "done" => trace = SeqsTrace(0, target, 1)

IsPrefix(s, t) == Len(s) <= Len(t) /\ \A k \in 1..Len(s) : s[k] = t[k]

\* How far the run has got: loop indices first, then the place in the body.
PcRank ==
    CASE pc = "idle" -> 0
      [] pc = "tok" -> 1
      [] pc = "apply" -> 2
      [] pc = "wnd" -> 3
      [] pc = "seq" -> 4
      [] OTHER -> 5

Progress == <<fi, si, wnd.i, tokIdx, PcRank>>

RECURSIVE LexLess(_, _)
LexLess(a, b) ==
    /\ a # <<>>
    /\ \/ Head(a) < Head(b)
       \/ Head(a) = Head(b) /\ LexLess(Tail(a), Tail(b))

TrainInOrder ==
    /\ pc # "error" /\ err = ""
    /\ IsPrefix(trace, FuncsTrace(repo.funcs, 1))
    /\ pc = "done" =>
         /\ trace = FuncsTrace(repo.funcs, 1)
         /\ Len(trace) = TotalWindows(repo.funcs)
    /\ pc # "done" => ENABLED Next
    /\ fi <= Len(repo.funcs) /\ si <= Len(CurSeqs)
    /\ wnd.i <= Max(1, Len(wnd.seq) - 1)
    /\ \E ins \in InstSet : tokIdx <= Len(InsTokens(ins)) + 1

WindowYieldsEachPositionOnce ==
    LET n == Len(wnd.seq)
    IN  /\ Len(yielded) = wnd.i - 1
        /\ Len(yielded) <= WindowCount(n)
        /\ \A k \in 1..Len(yielded) :
             yielded[k] = [prev |-> wnd.seq[k], curr |-> wnd.seq[k + 1],
                           next |-> wnd.seq[k + 2]]
        /\ stops > 0 => Len(yielded) = WindowCount(n)

WindowStoppedTwiceAfterTwoTuples ==
    /\ stops >= 2
    /\ Len(yielded) = 2

\* C5: during train the tokens-handled counter equals the number of tokens
\* the gradient step has processed so far.
CounterCountsTokens ==
    (mode = "train" /\ pc # "idle") =>
        counters[MainCtx][TOKENS_HANDLED_COUNTER] = tokensDone

\* C6: the learning rate of the context never increases (starting from the
\* initial alpha0) and is never below alpha0 * 10^-4.
LearningRateNonIncreasing ==
    [][/\ RatLeq(context'.alpha, context.alpha)
       /\ RatLeq(AlphaFloor(params), context'.alpha)]_vars

\* C7: get_counter fails for a name that was never registered, and returns
\* the registered counter otherwise.
GetCounterFailsWhenAbsent ==
    lastOp.op = "get_counter" =>
        lastOp.outcome =
            IF Registered(lastOp.ctx, lastOp.name) THEN "Counter" ELSE "error"

\* C8: inc raises a counter by one and returns the new value, reset returns
\* the old value and leaves 0, val changes nothing; so every counter holds
\* its initial value (0 after the last reset) plus the incs since then,
\* whatever happens to the other counters of this or another context.
CounterContract ==
    /\ \A c \in CtxIds :
         /\ DOMAIN counters[c] = DOMAIN expected[c]
         /\ \A n \in DOMAIN counters[c] : counters[c][n] = expected[c][n]
    /\ lastOp.op = "inc" =>
         /\ lastOp.ret = lastOp.before + 1
         /\ counters[lastOp.ctx][lastOp.name] = lastOp.before + 1
    /\ lastOp.op = "reset" =>
         /\ lastOp.ret = lastOp.before
         /\ counters[lastOp.ctx][lastOp.name] = 0
    /\ lastOp.op = "val" =>
         /\ lastOp.ret = lastOp.before
         /\ counters[lastOp.ctx][lastOp.name] = lastOp.before

CounterIncrementedBesideOthers ==
    /\ lastOp.op = "inc"
    /\ lastOp.ret = MaxCounterVal
    /\ \E c \in CtxIds \ {lastOp.ctx} :
         /\ Registered(c, lastOp.name)
         /\ counters[c][lastOp.name] = 0
    /\ \E n \in CounterNames \ {lastOp.name} :
         /\ Registered(lastOp.ctx, n)
         /\ counters[lastOp.ctx][n] = 1

\* C9: the target set of a token step has one entry per name, holds the
\* current token and every drawn name, has between 1 and S + 1 entries, and
\* the current token is inserted only when no draw has its name.
TargetSetContract ==
    lastTok.tk # "" =>
        LET t == lastTok.targets
            d == lastTok.draws
        IN  /\ \A j, k \in 1..Len(t) : j # k => t[j].name # t[k].name
            /\ \E k \in 1..Len(t) : t[k].name = lastTok.tk
            /\ \A j \in 1..Len(d) : \E k \in 1..Len(t) : t[k].name = d[j]
            /\ Len(d) = params.neg_samples
            /\ 1 <= Len(t) /\ Len(t) <= params.neg_samples + 1
            /\ \A k \in 1..Len(t) : t[k].from = "tk" =>
                 /\ t[k].name = lastTok.tk
                 /\ \A j \in 1..Len(d) : d[j] # lastTok.tk

TargetDrawnTwice ==
    /\ Len(lastTok.draws) >= 2
    /\ lastTok.draws[1] = lastTok.tk
    /\ lastTok.draws[2] = lastTok.tk
    /\ Len(lastTok.targets) = 1

\* C10: in full training every update of the back-propagation is scaled by
\* the current learning rate, operand updates divided by the number of
\* operands of their instruction.
BackPropUsesCurrentRate ==
    (pc = "wnd" /\ ~context.is_estimating) =>
        \A k \in 1..Len(lastWrites) :
            /\ RatEq(lastWrites[k].factor, context.alpha)
            /\ lastWrites[k].role \in {"prev_op", "next_op"} => lastWrites[k].div = 1
            /\ lastWrites[k].role = "prev_arg" =>
                 lastWrites[k].div = Len(wnd.view.prev.args)
            /\ lastWrites[k].role = "next_arg" =>
                 lastWrites[k].div = Len(wnd.view.next.args)

====
